---- MODULE Spec2Model ----
(***************************************************************************)
(* The OSM XML input format of libosmium: XMLParser (the SAX state machine *)
(* of include/osmium/io/detail/xml_input_format.hpp) driving the builders  *)
(* of include/osmium/builder/osm_object_builder.hpp, the producer thread   *)
(* XMLParser::run, its output queue and header promise, and a consumer.    *)
(*                                                                         *)
(* Strings are modelled by their length (a natural number) where only the  *)
(* number of bytes they occupy matters; elements are identified by the     *)
(* position of their start tag in the source (their "id"/"k"/"ref").       *)
(***************************************************************************)
EXTENDS Integers, Sequences, FiniteSets, TLC

\* ------------------------------------------------------------------ bounds

\* Tokenizer events (start, end, characters) of one input in the structural
\* specifications.
MaxEvents == 8
\* Nesting depth of open elements the inputs reach.
MaxDepth == 4
\* Capacity of the bounded output queue.
MaxQueue == 2
\* Entities of the uniform entity stream (SpecStream).
MaxStream == 81

\* Tokenizer events of one input in the scheduling specification
\* (SpecLive).
MaxLive == 14
MaxText == 12

\* --------------------------------------------------------------- constants

\* XMLParser::buffer_size
buffer_size == 2000000

\* osmium::memory::align_bytes
align_bytes == 8
\* sizeof of the fixed parts of the items (implementation-defined, stable)
SizeofNode == 40
SizeofWay == 32
SizeofRelation == 32
SizeofChangeset == 56
SizeofStringSize == 2
SizeofSublist == 8
SizeofNodeRef == 16
SizeofRelationMember == 16
SizeofComment == 24

EntityNames == {"node", "way", "relation", "changeset"}

NoError == [kind |-> "none", version |-> ""]
Error(k) == [kind |-> k, version |-> ""]

\* The header before anything was parsed (osmium::io::Header()).
EmptyHeader == [version |-> "", multiple |-> FALSE, boxes |-> 0]
\* What a std::promise holds: nothing yet, a value or an exception.
PromiseUnset == [state |-> "unset", header |-> EmptyHeader, error |-> NoError]

\* No object under construction. in_delete is history: the value of
\* m_in_delete_section when the object was started.
NoItem == [type |-> "none", id |-> 0, visible |-> TRUE, in_delete |-> FALSE,
           size |-> 0, subs |-> <<>>]
EmptyBuffer == [written |-> 0, committed |-> 0, items |-> <<>>]

VARIABLES
    \* ---- the producer thread (XMLParser::run, Parser)
    pc,                 \* "loop" | "chunk" | "final" | "done" | "failed" | "aborted"
    last,               \* input_done(): the end of the input has been popped
    read_types,         \* the entity kinds the reader asked for
    header_is_done,     \* Parser::m_header_is_done
    header_promise,     \* the one-shot header channel
    promise_sets,       \* how many times the promise has been fulfilled
    \* ---- the tokenizer (Expat) and the source it reads
    stack,              \* names of the open elements, outermost first
    root_closed,        \* the document element has been closed
    nevents,            \* events delivered so far
    src_user,           \* length of the user attribute the entities carry
    source,             \* the entity elements of the source not inside another entity
    \* ---- XMLParser
    m_context,
    m_last_context,
    m_in_delete_section,
    m_header,
    m_buffer,           \* [written, committed, items]: items are the committed ones
    item,               \* the uncommitted object under construction in m_buffer
    m_node_builder,
    m_way_builder,
    m_relation_builder,
    m_changeset_builder,
    m_changeset_discussion_builder,   \* 0 (null) or the index of its sublist
    m_tl_builder,
    m_wnl_builder,
    m_rml_builder,
    m_comment_text,     \* length of the accumulated text
    asserts,            \* the assert()s that failed
    lifetime,           \* history: the breaches of builder nesting seen so far
    entity_declared,    \* history: an entity declaration has been reported
    text_chars,         \* history: the character data since the last <text> tag
    src_bounds,         \* history: the bounds children of the document element so far
    thrown,             \* the exception that ended run(), NoError if none
    \* ---- the output side
    output_queue,       \* buffers (and the error marker) pushed and not yet popped
    consumed,           \* what the consumer has popped, in pop order
    pushed,             \* every buffer pushed, in push order
    commits             \* ids of the entities committed, in commit order

vars == <<pc, last, read_types, header_is_done, header_promise,
          promise_sets, stack, root_closed, nevents, src_user, source,
          m_context, m_last_context, m_in_delete_section, m_header, m_buffer,
          item, m_node_builder, m_way_builder, m_relation_builder,
          m_changeset_builder, m_changeset_discussion_builder, m_tl_builder,
          m_wnl_builder, m_rml_builder, m_comment_text, asserts, lifetime,
          entity_declared, text_chars, src_bounds, thrown, output_queue, consumed,
          pushed, commits>>

\* ------------------------------------------------------- the parser's state

\* The fields the handlers read and write, as one record.
Parser ==
    [m_context |-> m_context, m_last_context |-> m_last_context,
     m_in_delete_section |-> m_in_delete_section, m_header |-> m_header,
     m_buffer |-> m_buffer, item |-> item,
     m_node_builder |-> m_node_builder, m_way_builder |-> m_way_builder,
     m_relation_builder |-> m_relation_builder,
     m_changeset_builder |-> m_changeset_builder,
     m_changeset_discussion_builder |-> m_changeset_discussion_builder,
     m_tl_builder |-> m_tl_builder, m_wnl_builder |-> m_wnl_builder,
     m_rml_builder |-> m_rml_builder, m_comment_text |-> m_comment_text,
     asserts |-> asserts, lifetime |-> lifetime, thrown |-> thrown,
     header_is_done |-> header_is_done, header_promise |-> header_promise,
     promise_sets |-> promise_sets, output_queue |-> output_queue,
     pushed |-> pushed, commits |-> commits]

Throw(P, e) == IF P.thrown = NoError THEN [P EXCEPT !.thrown = e] ELSE P

\* The builders that are live in P.
sublist_live(P) ==
    \/ P.m_tl_builder # 0 \/ P.m_wnl_builder # 0 \/ P.m_rml_builder # 0
    \/ P.m_changeset_discussion_builder # 0
entity_builder_live(P) ==
    \/ P.m_node_builder \/ P.m_way_builder \/ P.m_relation_builder
    \/ P.m_changeset_builder
\* History: `label` is recorded if cond holds where the handler stands.
Note(P, cond, label) ==
    IF cond THEN [P EXCEPT !.lifetime = @ \cup {label}] ELSE P
AssertThat(P, cond, label) ==
    IF cond THEN P ELSE [P EXCEPT !.asserts = @ \cup {label}]

\* ------------------------------------------------------ Buffer and Builder

\* Buffer::reserve(n): BufferFull if written + n > capacity.
reserve_space(P, n) ==
    IF P.thrown # NoError THEN P
    ELSE IF P.m_buffer.written + n > buffer_size THEN Throw(P, Error("buffer_full"))
    ELSE [P EXCEPT !.m_buffer.written = @ + n]

\* Buffer::commit(): written becomes committed, the object is a whole item.
commit(P) ==
    IF P.thrown # NoError THEN P
    ELSE [Note(P, sublist_live(P) \/ entity_builder_live(P), "commit: a builder is live")
             EXCEPT !.m_buffer.committed = P.m_buffer.written,
                   !.m_buffer.items = Append(@, P.item),
                   !.commits = Append(@, P.item.id),
                   !.item = NoItem]

\* Bytes to the next alignment boundary; `extra` forces at least one.
padding_for(size, extra) ==
    LET p == (align_bytes - (size % align_bytes)) % align_bytes
    IN  IF extra /\ p = 0 THEN align_bytes ELSE p

\* Builder::add_size of the entity builder (it has no parent).
add_size(P, n) ==
    IF P.thrown # NoError THEN P ELSE [P EXCEPT !.item.size = @ + n]

\* Builder::add_size of the sublist builder of sublist i: its own size prefix
\* and its parent's.
sub_add_size(P, i, n) ==
    IF P.thrown # NoError THEN P
    ELSE IF i = 0 THEN [P EXCEPT !.asserts = @ \cup {"null_builder"}]
    ELSE [P EXCEPT !.item.subs[i].size = @ + n, !.item.size = @ + n]

\* Builder::append(bytes) then add_size of what was appended.
append(P, n) == add_size(reserve_space(P, n), n)
sub_append(P, i, n) == sub_add_size(reserve_space(P, n), i, n)

\* Builder::add_padding(true) of the entity builder: the padding is part of
\* the entity.
add_padding_self(P) ==
    append(P, padding_for(P.item.size, TRUE))

\* Builder::add_padding(true) of a sublist builder.
sub_add_padding_self(P, i) ==
    IF i = 0 THEN P
    ELSE sub_append(P, i, padding_for(P.item.subs[i].size, TRUE))

\* Builder::add_padding() of a sublist builder: the padding follows the
\* sublist and is counted in the parent only.
sub_add_padding(P, i) ==
    LET p == padding_for(P.item.subs[i].size, FALSE)
        Q == reserve_space(P, p)
    IN  IF Q.thrown # NoError THEN Q
        ELSE [Q EXCEPT !.item.subs[i].padding = p, !.item.size = @ + p]

\* ObjectBuilder<T>(buffer, parent) for a sublist: reserves the sublist's
\* header, counts it in the parent, and is the sublist's builder from then on.
new_sublist(P, type) ==
    LET Q == reserve_space(P, SizeofSublist)
    IN  IF Q.thrown # NoError THEN Q
        ELSE [Q EXCEPT !.item.subs = Append(@, [type |-> type, size |-> SizeofSublist,
                                                padding |-> 0, elems |-> <<>>]),
                       !.item.size = @ + SizeofSublist]

\* ObjectBuilder<T>(buffer) for an entity.
sizeof(type) ==
    CASE type = "node" -> SizeofNode
      [] type = "way" -> SizeofWay
      [] type = "relation" -> SizeofRelation
      [] type = "changeset" -> SizeofChangeset

ObjectBuilder(P, type) ==
    LET Q == reserve_space(P, sizeof(type))
    IN  IF Q.thrown # NoError THEN Q
        ELSE [Q EXCEPT !.item = [type |-> type, id |-> 0, visible |-> TRUE,
                                 in_delete |-> P.m_in_delete_section,
                                 size |-> sizeof(type), subs |-> <<>>]]

\* Builder::add_user(s): the NUL-terminated user string, padded.
add_user(P, user) == add_padding_self(append(P, user + 1))

\* ------------------------------------------------- osm_object_builder.hpp

\* OSMObjectBuilder<T>::OSMObjectBuilder
OSMObjectBuilder(P, type) ==
    append(ObjectBuilder(P, type), SizeofStringSize)

\* The destructors gone wrong: no add_padding().
release_sublist_unpadded(P, i) == P

\* ~TagListBuilder, ~NodeRefListBuilder, ~RelationMemberListBuilder and the
\* release of a ChangesetDiscussionBuilder (unique_ptr::reset): nothing for
\* a null pointer.
release_sublist(P, i) ==
    IF i = 0 \/ P.thrown # NoError THEN P ELSE sub_add_padding(P, i)

\* add_tag gone wrong: the size of the value is not counted.
add_tag_key_only(P, i, k, klen, vlen) ==
    LET Q == sub_add_size(reserve_space(P, (klen + 1) + (vlen + 1)), i, klen + 1)
    IN  IF Q.thrown # NoError \/ i = 0 THEN Q
        ELSE [Q EXCEPT !.item.subs[i].elems = Append(@, k)]

\* add_tag gone wrong: the tag is put before the tags already there.
add_tag_front(P, i, k, klen, vlen) ==
    LET Q == sub_append(P, i, (klen + 1) + (vlen + 1))
    IN  IF Q.thrown # NoError \/ i = 0 THEN Q
        ELSE [Q EXCEPT !.item.subs[i].elems = <<k>> \o @]

\* TagListBuilder::add_tag(const char*, const char*)
add_tag(P, i, k, klen, vlen) ==
    LET Q == sub_append(P, i, (klen + 1) + (vlen + 1))
    IN  IF Q.thrown # NoError \/ i = 0 THEN Q
        ELSE [Q EXCEPT !.item.subs[i].elems = Append(@, k)]

\* NodeRefListBuilder::add_node_ref
add_node_ref(P, i, ref) ==
    LET Q == sub_append(P, i, SizeofNodeRef)
    IN  IF Q.thrown # NoError \/ i = 0 THEN Q
        ELSE [Q EXCEPT !.item.subs[i].elems = Append(@, ref)]

\* RelationMemberListBuilder::add_role
add_role(P, i, rolelen) ==
    sub_add_padding_self(sub_append(P, i, rolelen), i)

\* RelationMemberListBuilder::add_member(type, ref, const char* role)
add_member(P, i, type, ref, rolelen) ==
    LET Q == add_role(sub_append(P, i, SizeofRelationMember), i, rolelen + 1)
    IN  IF Q.thrown # NoError \/ i = 0 THEN Q
        ELSE [Q EXCEPT !.item.subs[i].elems = Append(@, [ref |-> ref, type |-> type])]

\* ChangesetDiscussionBuilder::add_comment(date, uid, user)
add_comment(P, i, id, userlen) ==
    LET Q == sub_add_padding_self(
                 sub_append(sub_append(P, i, SizeofComment), i, userlen + 1), i)
    IN  IF Q.thrown # NoError \/ i = 0 THEN Q
        ELSE [Q EXCEPT !.item.subs[i].elems = Append(@, [id |-> id, text |-> -1])]

\* ChangesetDiscussionBuilder::add_comment_text(s)
add_comment_text(P, i, textlen) ==
    LET Q == sub_add_padding_self(sub_append(P, i, textlen + 1), i)
    IN  IF Q.thrown # NoError \/ i = 0 THEN Q
        ELSE IF Len(Q.item.subs[i].elems) = 0
             THEN [Q EXCEPT !.asserts = @ \cup {"no_comment"}]
        ELSE [Q EXCEPT !.item.subs[i].elems[Len(P.item.subs[i].elems)].text = textlen]


\* ---------------------------------------------------------- Parser (base)

\* Parser::set_header_value: fulfils the promise the first time only.
set_header_value(P, header) ==
    IF P.header_is_done THEN P
    ELSE [P EXCEPT !.header_is_done = TRUE,
                   !.header_promise = [state |-> "value", header |-> header,
                                       error |-> NoError],
                   !.promise_sets = @ + 1]

\* Parser::set_header_exception: the same for an exception.
set_header_exception(P, e) ==
    IF P.header_is_done THEN P
    ELSE [P EXCEPT !.header_is_done = TRUE,
                   !.header_promise = [state |-> "exception", header |-> EmptyHeader,
                                       error |-> e],
                   !.promise_sets = @ + 1]

\* What travels through the output queue: a buffer or an exception.
BufferEntry(b) == [what |-> "buffer", items |-> b.items, committed |-> b.committed,
                   error |-> NoError]
ErrorEntry(e) == [what |-> "error", items |-> <<>>, committed |-> 0, error |-> e]

\* Parser::send_to_output_queue(std::move(buffer))
send_to_output_queue(P, b) ==
    [P EXCEPT !.output_queue = Append(@, BufferEntry(b)),
              !.pushed = Append(@, BufferEntry(b))]

\* ---------------------------------------------------------------- XMLParser

\* The value of attribute `name` after check_attributes has walked attrs
\* from the first pair to the last, `default` if it does not occur.
RECURSIVE attribute(_, _, _)
attribute(attrs, name, default) ==
    IF attrs = <<>> THEN default
    ELSE attribute(Tail(attrs), name,
                   IF Head(attrs)[1] = name THEN Head(attrs)[2] ELSE default)

has_attribute(attrs, name) == \E i \in 1..Len(attrs) : attrs[i][1] = name

\* OSMObject::set_attribute(name, value): the typed setters.
set_attribute(object, name, value) ==
    CASE name = "id" -> [object EXCEPT !.id = value]
      [] name = "visible" -> [object EXCEPT !.visible = (value = "true")]
      [] OTHER -> object

\* The lambda of init_object applied to attrs in order: acc is the object
\* and the user captured so far.
RECURSIVE init_object_attrs(_, _)
init_object_attrs(acc, attrs) ==
    IF attrs = <<>> THEN acc
    ELSE LET name == Head(attrs)[1]
             value == Head(attrs)[2]
         IN  init_object_attrs(
                 IF name \in {"lon", "lat"} THEN acc
                 ELSE IF name = "user" THEN [acc EXCEPT !.user = value]
                 ELSE [acc EXCEPT !.object = set_attribute(@, name, value)],
                 Tail(attrs))

\* XMLParser::init_object: the object after it, and the user it returns.
init_object(object, in_delete_section, attrs) ==
    init_object_attrs(
        [object |-> IF in_delete_section THEN [object EXCEPT !.visible = FALSE]
                    ELSE object,
         user |-> 0],
        attrs)

\* XMLParser::init_changeset
init_changeset(P, attrs) ==
    LET r == init_object_attrs([object |-> P.item, user |-> 0], attrs)
    IN  add_user([P EXCEPT !.item = r.object], r.user)

\* m_xxx_builder->add_user(init_object(m_xxx_builder->object(), attrs))
init_and_add_user(P, attrs) ==
    IF P.thrown # NoError THEN P
    ELSE LET r == init_object(P.item, P.m_in_delete_section, attrs)
         IN  add_user([P EXCEPT !.item = r.object], r.user)

\* mark_header_as_done gone wrong: it fulfils the promise itself, without the
\* once-only guard of set_header_value.
mark_header_as_done_unguarded(P) ==
    [P EXCEPT !.header_is_done = TRUE,
              !.header_promise = [state |-> "value", header |-> P.m_header,
                                  error |-> NoError],
              !.promise_sets = @ + 1]

\* XMLParser::mark_header_as_done
mark_header_as_done(P) == set_header_value(P, P.m_header)

\* unique_ptr<...Builder>(new ...Builder(m_buffer, parent)) assigned to the
\* member `builder`: the member is set only if the constructor returned.
make_sublist(P, type, builder) ==
    LET N == new_sublist(Note(P, sublist_live(P),
                              "sublist builder created while another is live"),
                         type)
    IN  IF N.thrown # NoError THEN N ELSE [N EXCEPT ![builder] = Len(N.item.subs)]

\* m_xxx_builder.reset() of a sublist builder
reset_sublist(P, builder) ==
    IF P.thrown # NoError THEN P
    ELSE [release_sublist(P, P[builder]) EXCEPT ![builder] = 0]

\* The rest of a handler, unless an exception is on its way.
OnOk(P, Q) == IF P.thrown # NoError THEN P ELSE Q

\* XMLParser::get_tag
get_tag(P, attrs) ==
    LET k == attribute(attrs, "k", [id |-> 0, len |-> 0])
        v == attribute(attrs, "v", 0)
        Q == IF P.m_tl_builder = 0 THEN make_sublist(P, "tag_list", "m_tl_builder")
             ELSE P
    IN  add_tag(Q, Q.m_tl_builder, k.id, k.len, v)

\* case context::root gone wrong: the value of version is stored and never
\* compared with "0.6".
start_root_any_version(P, element, attrs) ==
    IF element \in {"osm", "osmChange"}
    THEN LET A == IF element = "osmChange"
                  THEN [P EXCEPT !.m_header.multiple = TRUE] ELSE P
             B == IF has_attribute(attrs, "version")
                  THEN [A EXCEPT !.m_header.version = attribute(attrs, "version", "")]
                  ELSE A
         IN  [B EXCEPT !.m_context = "top"]
    ELSE Throw(P, Error("xml_error: Unknown top-level element"))

\* case context::root gone wrong: an unknown document element is skipped
\* over instead of raising xml_error.
start_root_any_element(P, element, attrs) ==
    IF element \in {"osm", "osmChange"}
    THEN LET A == IF element = "osmChange"
                  THEN [P EXCEPT !.m_header.multiple = TRUE] ELSE P
             version == attribute(attrs, "version", "")
             B == IF has_attribute(attrs, "version")
                  THEN [A EXCEPT !.m_header.version = version] ELSE A
         IN  IF has_attribute(attrs, "version") /\ version # "0.6"
             THEN Throw(B, [kind |-> "format_version_error", version |-> version])
             ELSE IF B.m_header.version = ""
             THEN Throw(B, [kind |-> "format_version_error", version |-> ""])
             ELSE [B EXCEPT !.m_context = "top"]
    ELSE P

\* start_element, case context::root
start_root(P, element, attrs) ==
    IF element \in {"osm", "osmChange"}
    THEN LET A == IF element = "osmChange"
                  THEN [P EXCEPT !.m_header.multiple = TRUE] ELSE P
             version == attribute(attrs, "version", "")
             B == IF has_attribute(attrs, "version")
                  THEN [A EXCEPT !.m_header.version = version] ELSE A
         IN  IF has_attribute(attrs, "version") /\ version # "0.6"
             THEN Throw(B, [kind |-> "format_version_error", version |-> version])
             ELSE IF B.m_header.version = ""
             THEN Throw(B, [kind |-> "format_version_error", version |-> ""])
             ELSE [B EXCEPT !.m_context = "top"]
    ELSE Throw(P, Error("xml_error: Unknown top-level element"))

\* The read_types() test gone wrong: | where the code has &.
selected_or(types, element) == types \cup {element} # {}

\* The entity kinds of read_types() (an osm_entity_bits bit set).
selected(types, element) == element \in types

\* case context::top gone wrong: mark_header_as_done() is called only for
\* the kinds of entity the reader asked for.
start_entity_header_if_selected(P, element, attrs) ==
    IF selected(read_types, element)
    THEN LET H == mark_header_as_done(P)
         IN  IF element = "changeset"
             THEN LET B == init_changeset(ObjectBuilder(H, "changeset"), attrs)
                  IN  OnOk(B, [B EXCEPT !.m_changeset_builder = TRUE,
                                        !.m_context = "changeset"])
             ELSE LET B == init_and_add_user(OSMObjectBuilder(H, element), attrs)
                  IN  OnOk(B, [B EXCEPT !["m_" \o element \o "_builder"] = TRUE,
                                        !.m_context = element])
    ELSE [P EXCEPT !.m_context = "ignored_" \o element]

\* start_element, case context::top, the four entity elements
start_entity(P, element, attrs) ==
    LET H == mark_header_as_done(P)
    IN  IF selected(read_types, element)
        THEN IF element = "changeset"
             THEN LET B == init_changeset(ObjectBuilder(H, "changeset"), attrs)
                  IN  OnOk(B, [B EXCEPT !.m_changeset_builder = TRUE,
                                        !.m_context = "changeset"])
             ELSE LET B == init_and_add_user(OSMObjectBuilder(H, element), attrs)
                  IN  OnOk(B, [B EXCEPT !["m_" \o element \o "_builder"] = TRUE,
                                        !.m_context = element])
        ELSE [H EXCEPT !.m_context = "ignored_" \o element]

\* case context::top gone wrong: a bounds element adds no box to the header.
start_top_no_box(P, element, attrs) ==
    LET A == AssertThat(P, P.m_tl_builder = 0, "top: !m_tl_builder")
    IN  IF element \in EntityNames THEN start_entity(A, element, attrs)
        ELSE IF element = "delete" THEN [A EXCEPT !.m_in_delete_section = TRUE]
        ELSE A

\* start_element, case context::top
start_top(P, element, attrs) ==
    LET A == AssertThat(P, P.m_tl_builder = 0, "top: !m_tl_builder")
    IN  IF element \in EntityNames THEN start_entity(A, element, attrs)
        ELSE IF element = "bounds" THEN [A EXCEPT !.m_header.boxes = @ + 1]
        ELSE IF element = "delete" THEN [A EXCEPT !.m_in_delete_section = TRUE]
        ELSE A

\* case context::node gone wrong: m_last_context is not set.
start_node_context_not_saved(P, element, attrs) ==
    LET A == [P EXCEPT !.m_context = "in_object"]
    IN  IF element = "tag" THEN get_tag(A, attrs) ELSE A

\* start_element, case context::node
start_node(P, element, attrs) ==
    LET A == [P EXCEPT !.m_last_context = "node", !.m_context = "in_object"]
    IN  IF element = "tag" THEN get_tag(A, attrs) ELSE A

\* case context::way gone wrong: every nd gets a node list of its own.
start_way_new_list(P, element, attrs) ==
    LET A == [P EXCEPT !.m_last_context = "way", !.m_context = "in_object"]
    IN  IF element = "nd"
        THEN LET B == reset_sublist(reset_sublist(A, "m_tl_builder"), "m_wnl_builder")
                 C == make_sublist(B, "way_node_list", "m_wnl_builder")
             IN  add_node_ref(C, C.m_wnl_builder, attribute(attrs, "ref", 0))
        ELSE IF element = "tag"
        THEN get_tag(reset_sublist(A, "m_wnl_builder"), attrs)
        ELSE A

\* start_element, case context::way
start_way(P, element, attrs) ==
    LET A == [P EXCEPT !.m_last_context = "way", !.m_context = "in_object"]
    IN  IF element = "nd"
        THEN LET B == reset_sublist(A, "m_tl_builder")
                 C == IF B.m_wnl_builder = 0
                      THEN make_sublist(B, "way_node_list", "m_wnl_builder")
                      ELSE B
             IN  add_node_ref(C, C.m_wnl_builder, attribute(attrs, "ref", 0))
        ELSE IF element = "tag"
        THEN get_tag(reset_sublist(A, "m_wnl_builder"), attrs)
        ELSE A

\* case context::relation gone wrong: the test of ref is missing.
start_relation_any_ref(P, element, attrs) ==
    LET A == [P EXCEPT !.m_last_context = "relation", !.m_context = "in_object"]
    IN  IF element = "member"
        THEN LET B == reset_sublist(A, "m_tl_builder")
                 C == IF B.m_rml_builder = 0
                      THEN make_sublist(B, "relation_member_list", "m_rml_builder")
                      ELSE B
                 type == attribute(attrs, "type", "undefined")
                 ref == attribute(attrs, "ref", 0)
                 role == attribute(attrs, "role", 0)
             IN  IF type \notin {"n", "w", "r"}
                 THEN Throw(C, Error("xml_error: Unknown type on relation member"))
                 ELSE add_member(C, C.m_rml_builder, type, ref, role)
        ELSE IF element = "tag"
        THEN get_tag(reset_sublist(A, "m_rml_builder"), attrs)
        ELSE A

\* start_element, case context::relation
start_relation(P, element, attrs) ==
    LET A == [P EXCEPT !.m_last_context = "relation", !.m_context = "in_object"]
    IN  IF element = "member"
        THEN LET B == reset_sublist(A, "m_tl_builder")
                 C == IF B.m_rml_builder = 0
                      THEN make_sublist(B, "relation_member_list", "m_rml_builder")
                      ELSE B
                 type == attribute(attrs, "type", "undefined")
                 ref == attribute(attrs, "ref", 0)
                 role == attribute(attrs, "role", 0)
             IN  IF type \notin {"n", "w", "r"}
                 THEN Throw(C, Error("xml_error: Unknown type on relation member"))
                 ELSE IF ref = 0
                 THEN Throw(C, Error("xml_error: Missing ref on relation member"))
                 ELSE add_member(C, C.m_rml_builder, type, ref, role)
        ELSE IF element = "tag"
        THEN get_tag(reset_sublist(A, "m_rml_builder"), attrs)
        ELSE A

\* case context::changeset gone wrong: a tag does not release the discussion
\* builder.
start_changeset_keep_discussion(P, element, attrs) ==
    LET A == [P EXCEPT !.m_last_context = "changeset"]
    IN  IF element = "discussion"
        THEN LET B == reset_sublist([A EXCEPT !.m_context = "discussion"],
                                    "m_tl_builder")
             IN  IF B.m_changeset_discussion_builder = 0
                 THEN make_sublist(B, "changeset_discussion",
                                   "m_changeset_discussion_builder")
                 ELSE B
        ELSE IF element = "tag"
        THEN get_tag([A EXCEPT !.m_context = "in_object"], attrs)
        ELSE A

\* start_element, case context::changeset
start_changeset(P, element, attrs) ==
    LET A == [P EXCEPT !.m_last_context = "changeset"]
    IN  IF element = "discussion"
        THEN LET B == reset_sublist([A EXCEPT !.m_context = "discussion"],
                                    "m_tl_builder")
             IN  IF B.m_changeset_discussion_builder = 0
                 THEN make_sublist(B, "changeset_discussion",
                                   "m_changeset_discussion_builder")
                 ELSE B
        ELSE IF element = "tag"
        THEN get_tag(reset_sublist([A EXCEPT !.m_context = "in_object"],
                                   "m_changeset_discussion_builder"),
                     attrs)
        ELSE A

\* start_element, case context::discussion
start_discussion(P, element, attrs) ==
    IF element = "comment"
    THEN add_comment([P EXCEPT !.m_context = "comment"],
                     P.m_changeset_discussion_builder,
                     attribute(attrs, "date", 0), attribute(attrs, "user", 0))
    ELSE P

\* start_element, case context::comment
start_comment(P, element) ==
    IF element = "text" THEN [P EXCEPT !.m_context = "comment_text"] ELSE P

\* XMLParser::start_element
start_element(P, element, attrs) ==
    CASE P.m_context = "root" -> start_root(P, element, attrs)
      [] P.m_context = "top" -> start_top(P, element, attrs)
      [] P.m_context = "node" -> start_node(P, element, attrs)
      [] P.m_context = "way" -> start_way(P, element, attrs)
      [] P.m_context = "relation" -> start_relation(P, element, attrs)
      [] P.m_context = "changeset" -> start_changeset(P, element, attrs)
      [] P.m_context = "discussion" -> start_discussion(P, element, attrs)
      [] P.m_context = "comment" -> start_comment(P, element)
      [] P.m_context = "in_object" ->
             AssertThat(P, FALSE, "start_element: in_object")
      [] OTHER -> P

\* The threshold gone wrong: buffer_size / 10, the factor 9 forgotten.
flush_threshold_tenth == buffer_size \div 10

\* The flush threshold of flush_buffer: buffer_size / 10 * 9 in int arithmetic.
flush_threshold == (buffer_size \div 10) * 9

\* flush_buffer gone wrong: >= where the code has >.
flush_buffer_ge(P) ==
    IF P.m_buffer.committed >= flush_threshold
    THEN [send_to_output_queue(P, P.m_buffer) EXCEPT !.m_buffer = EmptyBuffer]
    ELSE P

\* flush_buffer gone wrong: the buffer is sent and then rewound and written
\* again, no fresh buffer takes its place.
flush_buffer_rewind(P) ==
    IF P.m_buffer.committed > flush_threshold
    THEN [send_to_output_queue(P, P.m_buffer)
             EXCEPT !.m_buffer.written = 0, !.m_buffer.committed = 0]
    ELSE P

\* flush_buffer gone wrong: the buffer is sent and filled further, no fresh
\* buffer takes its place.
flush_buffer_keep(P) ==
    IF P.m_buffer.committed > flush_threshold
    THEN send_to_output_queue(P, P.m_buffer)
    ELSE P

\* XMLParser::flush_buffer
flush_buffer(P) ==
    IF P.m_buffer.committed > flush_threshold
    THEN [send_to_output_queue(P, P.m_buffer) EXCEPT !.m_buffer = EmptyBuffer]
    ELSE P

\* The entity cases of end_element gone wrong: m_buffer.commit() is missing.
end_entity_no_commit(P, element, type, sublist) ==
    LET A == AssertThat(P, element = type, "end_element: " \o type)
        B == reset_sublist(reset_sublist(A, "m_tl_builder"), sublist)
        C == [B EXCEPT !["m_" \o type \o "_builder"] = FALSE]
        D == [C EXCEPT !.m_context = "top"]
    IN  flush_buffer(D)

\* The entity cases of end_element gone wrong: m_tl_builder.reset() is
\* missing.
end_entity_keep_tags(P, element, type, sublist) ==
    LET A == AssertThat(P, element = type, "end_element: " \o type)
        B == IF sublist = "m_tl_builder" THEN A ELSE reset_sublist(A, sublist)
        C == [Note(B, sublist_live(B), "entity builder released before a sublist builder")
                 EXCEPT !["m_" \o type \o "_builder"] = FALSE]
        D == [commit(C) EXCEPT !.m_context = "top"]
    IN  flush_buffer(D)

\* end_element, cases context::node, way, relation and changeset: the
\* sublist builders and the entity builder are released, the object is
\* committed and the buffer flushed if it is full enough.
end_entity(P, element, type, sublist) ==
    LET A == AssertThat(P, element = type, "end_element: " \o type)
        B == reset_sublist(reset_sublist(A, "m_tl_builder"), sublist)
        C == [Note(B, sublist_live(B), "entity builder released before a sublist builder")
                 EXCEPT !["m_" \o type \o "_builder"] = FALSE]
        D == [commit(C) EXCEPT !.m_context = "top"]
    IN  flush_buffer(D)

\* end_element, case context::top
end_top(P, element) ==
    IF element \in {"osm", "osmChange"}
    THEN [mark_header_as_done(P) EXCEPT !.m_context = "root"]
    ELSE IF element = "delete" THEN [P EXCEPT !.m_in_delete_section = FALSE]
    ELSE P

\* end_element, the ignored contexts
end_ignored(P, element, type) ==
    IF element = type THEN [P EXCEPT !.m_context = "top"] ELSE P

\* XMLParser::end_element
end_element(P, element) ==
    CASE P.m_context = "root" -> AssertThat(P, FALSE, "end_element: root")
      [] P.m_context = "top" -> end_top(P, element)
      [] P.m_context = "node" -> end_entity(P, element, "node", "m_tl_builder")
      [] P.m_context = "way" -> end_entity(P, element, "way", "m_wnl_builder")
      [] P.m_context = "relation" ->
             end_entity(P, element, "relation", "m_rml_builder")
      [] P.m_context = "changeset" ->
             end_entity(P, element, "changeset", "m_changeset_discussion_builder")
      [] P.m_context = "discussion" ->
             [AssertThat(P, element = "discussion", "end_element: discussion")
                 EXCEPT !.m_context = "changeset"]
      [] P.m_context = "comment" ->
             [AssertThat(P, element = "comment", "end_element: comment")
                 EXCEPT !.m_context = "discussion"]
      [] P.m_context = "comment_text" ->
             add_comment_text(
                 [AssertThat(P, element = "text", "end_element: text")
                     EXCEPT !.m_context = "comment"],
                 P.m_changeset_discussion_builder, P.m_comment_text)
      [] P.m_context = "in_object" -> [P EXCEPT !.m_context = P.m_last_context]
      [] P.m_context = "ignored_node" -> end_ignored(P, element, "node")
      [] P.m_context = "ignored_way" -> end_ignored(P, element, "way")
      [] P.m_context = "ignored_relation" -> end_ignored(P, element, "relation")
      [] P.m_context = "ignored_changeset" -> end_ignored(P, element, "changeset")

\* XMLParser::characters
characters(P, len) ==
    IF P.m_context = "comment_text"
    THEN [P EXCEPT !.m_comment_text = @ + len]
    ELSE [P EXCEPT !.m_comment_text = 0]


\* ------------------------------------------------------------ assignments

\* The parser's fields after a handler returned P.
Apply(P) ==
    /\ m_context' = P.m_context
    /\ m_last_context' = P.m_last_context
    /\ m_in_delete_section' = P.m_in_delete_section
    /\ m_header' = P.m_header
    /\ m_buffer' = P.m_buffer
    /\ item' = P.item
    /\ m_node_builder' = P.m_node_builder
    /\ m_way_builder' = P.m_way_builder
    /\ m_relation_builder' = P.m_relation_builder
    /\ m_changeset_builder' = P.m_changeset_builder
    /\ m_changeset_discussion_builder' = P.m_changeset_discussion_builder
    /\ m_tl_builder' = P.m_tl_builder
    /\ m_wnl_builder' = P.m_wnl_builder
    /\ m_rml_builder' = P.m_rml_builder
    /\ m_comment_text' = P.m_comment_text
    /\ asserts' = P.asserts
    /\ lifetime' = P.lifetime
    /\ thrown' = P.thrown
    /\ header_is_done' = P.header_is_done
    /\ header_promise' = P.header_promise
    /\ promise_sets' = P.promise_sets
    /\ output_queue' = P.output_queue
    /\ pushed' = P.pushed
    /\ commits' = P.commits

\* Parser::parse, the catch block around run(): the header promise gets the
\* exception if it is still unfulfilled, the output queue gets it after the
\* buffers already pushed.
parse_catch(P) ==
    LET H == set_header_exception(P, P.thrown)
    IN  [H EXCEPT !.output_queue = Append(@, ErrorEntry(P.thrown))]

\* A handler (or a step of run) has returned P, or has thrown, or has failed
\* an assert: an assert aborts the process unless the build defines NDEBUG.
\* A push to the full output queue blocks.
Deliver(P) ==
    IF P.thrown # NoError
    THEN /\ Len(output_queue) < MaxQueue
         /\ Apply(parse_catch(P))
         /\ pc' = "failed"
    ELSE /\ Len(P.output_queue) <= MaxQueue
         /\ Apply(P)
         /\ pc' \in (IF P.asserts # asserts THEN {pc, "aborted"} ELSE {pc})

\* ----------------------------------------------------- the tokenizer (Expat)

\* An entity element of the source that is not inside another entity element.
is_source_entity(element) ==
    /\ element \in EntityNames
    /\ \A i \in 1..Len(stack) : stack[i] \notin EntityNames

\* The attribute lists the start tag of `element` may carry in the inputs of
\* vocabulary V; n identifies the element.
attr_lists(V, element, n) ==
    CASE element \in {"osm", "osmChange"} ->
             {IF v = "" THEN <<>> ELSE << <<"version", v>> >> : v \in V.versions}
             \cup (IF stack = <<>> THEN {} ELSE {<<>>})
      [] element \in EntityNames ->
             {<< <<"id", n>>, <<"user", src_user>> >>}
             \cup {<< <<"visible", v>>, <<"id", n>>, <<"user", src_user>> >> :
                      v \in V.visible}
             \cup {<< <<"id", n>>, <<"user", src_user>>, <<"visible", v>> >> :
                      v \in V.visible}
      [] element = "tag" ->
             {<< <<"k", [id |-> n, len |-> l]>>, <<"v", l>> >> : l \in V.taglens}
      [] element = "nd" -> {<< <<"ref", n>> >>}
      [] element = "member" ->
             {<< <<"type", t>>, <<"ref", n>>, <<"role", l>> >> :
                      t \in V.membertypes, l \in V.taglens}
             \cup (IF V.badref THEN {<< <<"type", "n">>, <<"ref", 0>> >>,
                                     << <<"type", "w">>, <<"role", 0>> >>,
                                     << <<"ref", n>>, <<"role", 0>> >>}
                   ELSE {})
      [] element = "comment" -> {<< <<"date", n>>, <<"user", l>> >> : l \in V.taglens}
      [] OTHER -> {<<>>}

\* start_element_wrapper: the start tag of a child of the innermost open
\* element, or of the document element.
TokStart(V, bound) ==
    /\ pc = "chunk"
    /\ ~root_closed
    /\ nevents < bound
    /\ Len(stack) < V.depth
    /\ \E element \in V.names :
         /\ stack = <<>> => element \in V.roots
         /\ \E attrs \in attr_lists(V, element, nevents + 1) :
              /\ Deliver(start_element(Parser, element, attrs))
              /\ stack' = Append(stack, element)
              /\ source' = IF is_source_entity(element)
                           THEN Append(source, [type |-> element, id |-> nevents + 1])
                           ELSE source
              /\ text_chars' = IF element = "text" THEN 0 ELSE text_chars
              /\ src_bounds' = IF element = "bounds" /\ Len(stack) = 1
                               THEN src_bounds + 1 ELSE src_bounds
    /\ nevents' = nevents + 1
    /\ UNCHANGED <<last, read_types, root_closed, src_user, consumed,
                   entity_declared>>

\* end_element_wrapper: the end tag of the innermost open element.
TokEnd ==
    /\ pc = "chunk"
    /\ stack # <<>>
    /\ Deliver(end_element(Parser, stack[Len(stack)]))
    /\ stack' = SubSeq(stack, 1, Len(stack) - 1)
    /\ root_closed' = (Len(stack) = 1)
    /\ nevents' = nevents + 1
    /\ UNCHANGED <<last, read_types, src_user, source, consumed, entity_declared,
                   text_chars, src_bounds>>

\* character_data_wrapper: character data inside the document element.
TokChars(V, bound) ==
    /\ pc = "chunk"
    /\ stack # <<>>
    /\ nevents < bound
    /\ \E len \in V.textlens :
         /\ Deliver(characters(Parser, len))
         /\ text_chars' = IF stack[Len(stack)] = "text" THEN text_chars + len
                          ELSE text_chars
    /\ nevents' = nevents + 1
    /\ UNCHANGED <<last, read_types, stack, root_closed, src_user, source,
                   consumed, entity_declared, src_bounds>>

\* entity_declaration_handler gone wrong: the declaration is let through.
entity_declaration_ignored(P) == P

\* ExpatXMLParser::entity_declaration_handler
entity_declaration_handler(P) ==
    Throw(P, Error("xml_error: XML entities are not supported"))

\* XML_SetEntityDeclHandler: Expat reports an <!ENTITY ...> of the document
\* type declaration, which precedes the document element.
TokEntityDecl ==
    /\ pc = "chunk"
    /\ stack = <<>> /\ ~root_closed
    /\ Deliver(entity_declaration_handler(Parser))
    /\ entity_declared' = TRUE
    /\ UNCHANGED <<last, read_types, stack, root_closed, nevents, src_user,
                   source, consumed, text_chars, src_bounds>>

\* ExpatXMLParser::operator(): XML_Parse returns XML_STATUS_ERROR at a token
\* that is not well-formed.
parse_status_error(P) == Throw(P, Error("xml_error: XML parsing error"))

TokSyntaxError ==
    /\ pc = "chunk"
    /\ Deliver(parse_status_error(Parser))
    /\ UNCHANGED <<last, read_types, stack, root_closed, nevents, src_user,
                   source, consumed, entity_declared, text_chars, src_bounds>>

\* -------------------------------------------------------- XMLParser::run

\* while (!input_done()) { data = get_input(); ...: the chunk popped is the
\* last one or not.
GetInput ==
    /\ pc = "loop"
    /\ ~last
    /\ last' \in BOOLEAN
    /\ pc' = "chunk"
    /\ UNCHANGED <<read_types, header_is_done, header_promise, promise_sets, stack,
                   root_closed, nevents, src_user, source, m_context, m_last_context,
                   m_in_delete_section, m_header, m_buffer, item, m_node_builder,
                   m_way_builder, m_relation_builder, m_changeset_builder,
                   m_changeset_discussion_builder, m_tl_builder, m_wnl_builder,
                   m_rml_builder, m_comment_text, asserts, lifetime,
                   entity_declared, text_chars, src_bounds, thrown, output_queue,
                   consumed,
                   pushed, commits>>

\* The loop gone wrong: the break is missing, the loop runs to the end of
\* the input.
loop_exits_at_end_only(types, header_done, input_is_done) == input_is_done

\* The loop gone wrong: it is left only by the break, never at the end of
\* the input.
loop_exits_by_break(types, header_done, input_is_done) ==
    types = {} /\ header_done

\* The loop's exit test after parser(data, input_done()) has returned.
loop_exits(types, header_done, input_is_done) ==
    (types = {} /\ header_done) \/ input_is_done

\* parser(data, input_done()) returns without an error: the last chunk has
\* completed the document. Then the loop's two exit tests.
ChunkEnd ==
    /\ pc = "chunk"
    /\ last => root_closed
    /\ pc' = IF loop_exits(read_types, header_is_done, last) THEN "final" ELSE "loop"
    /\ UNCHANGED <<last, read_types, header_is_done, header_promise, promise_sets,
                   stack, root_closed, nevents, src_user, source, m_context,
                   m_last_context, m_in_delete_section, m_header, m_buffer, item,
                   m_node_builder, m_way_builder, m_relation_builder,
                   m_changeset_builder, m_changeset_discussion_builder,
                   m_tl_builder, m_wnl_builder, m_rml_builder, m_comment_text,
                   asserts, lifetime, entity_declared, text_chars, src_bounds,
                   thrown, output_queue,
                   consumed, pushed, commits>>

\* XML_Parse of the last chunk finds the document incomplete (an element
\* still open, or no element at all).
TokIncomplete ==
    /\ pc = "chunk"
    /\ last /\ ~root_closed
    /\ Deliver(parse_status_error(Parser))
    /\ UNCHANGED <<last, read_types, stack, root_closed, nevents, src_user, source,
                   consumed, entity_declared, text_chars, src_bounds>>

\* The end of run() gone wrong: the last buffer goes through flush_buffer
\* and so is pushed only if it is more than 90% full.
run_end_via_flush(P) == flush_buffer(mark_header_as_done(P))

\* The end of run(): mark_header_as_done(), then the last buffer if it holds
\* anything.
run_end(P) ==
    LET H == mark_header_as_done(P)
    IN  IF H.m_buffer.committed > 0 THEN send_to_output_queue(H, H.m_buffer) ELSE H

Finish ==
    /\ pc = "final"
    /\ LET P == run_end(Parser)
       IN  /\ Len(P.output_queue) <= MaxQueue
           /\ Apply(P)
    /\ pc' = "done"
    /\ UNCHANGED <<last, read_types, stack, root_closed, nevents, src_user,
                   source, consumed, entity_declared, text_chars, src_bounds>>

\* ------------------------------------------------------------ the consumer

\* The reader pops the next buffer (or the exception) from the output queue.
Pop ==
    /\ output_queue # <<>>
    /\ pc # "aborted"
    /\ consumed' = Append(consumed, Head(output_queue))
    /\ output_queue' = Tail(output_queue)
    /\ UNCHANGED <<pc, last, read_types, header_is_done, header_promise,
                   promise_sets, stack, root_closed, nevents, src_user, source,
                   m_context, m_last_context, m_in_delete_section, m_header,
                   m_buffer, item, m_node_builder, m_way_builder,
                   m_relation_builder, m_changeset_builder,
                   m_changeset_discussion_builder, m_tl_builder, m_wnl_builder,
                   m_rml_builder, m_comment_text, asserts, lifetime,
                   entity_declared, text_chars, src_bounds, thrown, pushed, commits>>

\* --------------------------------------------------------- specifications

\* XMLParser::XMLParser, before run() is entered.
InitWith(type_sets, user_lens) ==
    /\ pc = "loop"
    /\ last = FALSE
    /\ read_types \in type_sets
    /\ header_is_done = FALSE
    /\ header_promise = PromiseUnset
    /\ promise_sets = 0
    /\ stack = <<>>
    /\ root_closed = FALSE
    /\ nevents = 0
    /\ src_user \in user_lens
    /\ source = <<>>
    /\ m_context = "root"
    /\ m_last_context = "root"
    /\ m_in_delete_section = FALSE
    /\ m_header = EmptyHeader
    /\ m_buffer = EmptyBuffer
    /\ item = NoItem
    /\ m_node_builder = FALSE
    /\ m_way_builder = FALSE
    /\ m_relation_builder = FALSE
    /\ m_changeset_builder = FALSE
    /\ m_changeset_discussion_builder = 0
    /\ m_tl_builder = 0
    /\ m_wnl_builder = 0
    /\ m_rml_builder = 0
    /\ m_comment_text = 0
    /\ asserts = {}
    /\ lifetime = {}
    /\ entity_declared = FALSE
    /\ text_chars = 0
    /\ src_bounds = 0
    /\ thrown = NoError
    /\ output_queue = <<>>
    /\ consumed = <<>>
    /\ pushed = <<>>
    /\ commits = <<>>

AllTypes == {"node", "way", "relation", "changeset"}

\* Inputs of the structural specification: any nesting of these elements
\* under a root element of version 0.6.
CoreVocabulary ==
    [names |-> {"osm", "node", "way", "changeset", "tag", "bounds"},
     roots |-> {"osm"},
     versions |-> {"0.6"},
     visible |-> {},
     taglens |-> {1},
     membertypes |-> {"n"},
     badref |-> FALSE,
     textlens |-> {1},
     depth |-> MaxDepth]

Init == InitWith({{}, {"node"}, AllTypes}, {0})

Next ==
    \/ GetInput
    \/ TokStart(CoreVocabulary, MaxEvents)
    \/ TokEnd
    \/ ChunkEnd
    \/ Finish
    \/ Pop

Spec == Init /\ [][Next]_vars

\* Inputs with errors: any root element and version, relation members with
\* bad type or ref, entity declarations, tokens that are not well-formed,
\* documents that end early; nodes so large that two of them fill a buffer.
ErrVocabulary ==
    [names |-> {"osm", "node", "relation", "member", "other"},
     roots |-> {"osm", "osmChange", "other"},
     versions |-> {"", "0.6", "0.5"},
     visible |-> {},
     taglens |-> {1},
     membertypes |-> {"n", "x"},
     badref |-> TRUE,
     textlens |-> {1},
     depth |-> 3]

InitErr == InitWith({{}, AllTypes}, {0, 999950})

NextErr ==
    \/ GetInput
    \/ TokStart(ErrVocabulary, MaxEvents)
    \/ TokEnd
    \/ TokEntityDecl
    \/ TokSyntaxError
    \/ TokIncomplete
    \/ ChunkEnd
    \/ Finish
    \/ Pop

SpecErr == InitErr /\ [][NextErr]_vars

\* Change files: entities with and without a visible attribute, first or
\* last in the attribute list, inside and outside delete sections.
ChangeVocabulary ==
    [names |-> {"osmChange", "delete", "create", "node", "way"},
     roots |-> {"osmChange"},
     versions |-> {"0.6"},
     visible |-> {"true", "false"},
     taglens |-> {1},
     membertypes |-> {"n"},
     badref |-> FALSE,
     textlens |-> {1},
     depth |-> 3]

InitChange == InitWith({AllTypes}, {0})

NextChange ==
    \/ GetInput
    \/ TokStart(ChangeVocabulary, MaxEvents)
    \/ TokEnd
    \/ ChunkEnd
    \/ Finish
    \/ Pop

SpecChange == InitChange /\ [][NextChange]_vars

\* A flat stream of up to MaxStream nodes, all by the same user; the user
\* names make nodes of 48, 250000, 600000 and 1000000 bytes.
StreamVocabulary ==
    [names |-> {"osm", "node"},
     roots |-> {"osm"},
     versions |-> {"0.6"},
     visible |-> {},
     taglens |-> {1},
     membertypes |-> {"n"},
     badref |-> FALSE,
     textlens |-> {1},
     depth |-> 2]

StreamUsers == {0, 249950, 599950, 999950}

InitStream == InitWith({{"node"}}, StreamUsers)

NextStream ==
    \/ GetInput
    \/ TokStart(StreamVocabulary, 2 * MaxStream + 1)
    \/ TokEnd
    \/ ChunkEnd
    \/ Finish
    \/ Pop

SpecStream == InitStream /\ [][NextStream]_vars

\* Ways and relations with their children in any order: tags, node refs and
\* members, strings of several lengths.
BuildVocabulary ==
    [names |-> {"osm", "way", "relation", "nd", "tag", "member"},
     roots |-> {"osm"},
     versions |-> {"0.6"},
     visible |-> {},
     taglens |-> {1, 2},
     membertypes |-> {"n"},
     badref |-> FALSE,
     textlens |-> {1},
     depth |-> 3]

\* Changesets with tags and discussions of comments in any order.
CommentVocabulary ==
    [names |-> {"osm", "changeset", "discussion", "comment", "tag"},
     roots |-> {"osm"},
     versions |-> {"0.6"},
     visible |-> {},
     taglens |-> {1, 2},
     membertypes |-> {"n"},
     badref |-> FALSE,
     textlens |-> {1},
     depth |-> MaxDepth]

\* The reader asks for ways and relations of an OSM file, or for the
\* changesets of a changeset file.
InitBuild == InitWith({{"way", "relation"}, {"changeset"}}, {0, 3})

NextBuild ==
    \/ GetInput
    \/ TokStart(IF "changeset" \in read_types THEN CommentVocabulary
                ELSE BuildVocabulary, MaxEvents)
    \/ TokEnd
    \/ ChunkEnd
    \/ Finish
    \/ Pop

SpecBuild == InitBuild /\ [][NextBuild]_vars

\* Changeset files that follow the schema: a changeset holds discussions, a
\* discussion comments, a comment text elements; character data anywhere
\* inside the document element.
TextChildren(parent) ==
    CASE parent = "osm" -> {"changeset"}
      [] parent = "changeset" -> {"discussion"}
      [] parent = "discussion" -> {"comment"}
      [] parent = "comment" -> {"text"}
      [] OTHER -> {}

TextVocabulary ==
    [names |-> IF stack = <<>> THEN {"osm"} ELSE TextChildren(stack[Len(stack)]),
     roots |-> {"osm"},
     versions |-> {"0.6"},
     visible |-> {},
     taglens |-> {1},
     membertypes |-> {"n"},
     badref |-> FALSE,
     textlens |-> {1},
     depth |-> MaxDepth + 1]

InitText == InitWith({{"changeset"}}, {0})

NextText ==
    \/ GetInput
    \/ TokStart(TextVocabulary, MaxText)
    \/ TokChars(TextVocabulary, MaxText)
    \/ TokEnd
    \/ ChunkEnd
    \/ Finish
    \/ Pop

SpecText == InitText /\ [][NextText]_vars

\* The producer thread and the consumer under fair scheduling: a stream of
\* nodes of 1000000 bytes, two to a buffer, so that the producer has to wait
\* for the consumer; documents that end early.
InitLive == InitWith({{}, {"node"}}, {999950})

Producer ==
    \/ GetInput
    \/ TokStart(StreamVocabulary, MaxLive)
    \/ TokEnd
    \/ TokIncomplete
    \/ ChunkEnd
    \/ Finish

NextLive == Producer \/ Pop

\* What the producer thread does once the tokenizer has nothing more to
\* report: XML_Parse returns (with or without an error), the loop is left and
\* the end of run() is executed.
RunReturns == TokIncomplete \/ ChunkEnd \/ Finish

\* The producer thread runs whenever it is not blocked (a chunk is finite, so
\* XML_Parse returns), and the consumer keeps popping.
SpecLive == InitLive /\ [][NextLive]_vars /\ WF_vars(RunReturns) /\ WF_vars(Pop)

\* ---------------------------------------------------------------- properties

\* The entities of a sequence of queue entries, buffer after buffer.
RECURSIVE items_of(_)
items_of(entries) ==
    IF entries = <<>> THEN <<>>
    ELSE Head(entries).items \o items_of(Tail(entries))

entity_of(it) == [type |-> it.type, id |-> it.id]
entities_of(entries) ==
    LET its == items_of(entries) IN [i \in 1..Len(its) |-> entity_of(its[i])]
ids_of(entries) ==
    LET its == items_of(entries) IN [i \in 1..Len(its) |-> its[i].id]

is_selected(e) == e.type \in read_types
is_buffer(entry) == entry.what = "buffer"
IsPrefix(a, b) == Len(a) <= Len(b) /\ a = SubSeq(b, 1, Len(a))
Last(q) == q[Len(q)]
NoBuilderLive ==
    /\ ~m_node_builder /\ ~m_way_builder /\ ~m_relation_builder
    /\ ~m_changeset_builder /\ m_changeset_discussion_builder = 0
    /\ m_tl_builder = 0 /\ m_wnl_builder = 0 /\ m_rml_builder = 0

\* C1: in a run that ends without an error (and without a failed assert),
\* the entities delivered to the output queue, buffer after buffer, are the
\* entity elements of the source that lie in no other entity element, in
\* source order, restricted to the kinds in read_types.
C1Ordering ==
    (pc = "done" /\ asserts = {}) =>
        entities_of(pushed) = SelectSeq(source, is_selected)

\* C2: every node, way or relation started while m_in_delete_section is set
\* is emitted with visible == false, whatever its visible attribute says and
\* wherever the attribute stands in the attribute list.
C2DeleteInvisible ==
    LET its == items_of(pushed)
    IN  \A i \in 1..Len(its) : its[i].in_delete => ~its[i].visible

\* C3: the header promise is fulfilled exactly once in every run that ends
\* without an error, by the first mark_header_as_done; every later call
\* leaves the promise and the delivered header as they are.
C3HeaderOnce ==
    /\ [](promise_sets <= 1 /\ (header_is_done <=> promise_sets = 1))
    /\ [](pc = "done" => promise_sets = 1 /\ header_promise.state = "value")
    /\ [][header_is_done =>
            header_promise' = header_promise /\ promise_sets' = promise_sets]_vars

\* A run that ended without error in which mark_header_as_done was called
\* for two entities, for the closing root element and at the end of run().
C3Witness ==
    pc = "done" /\ Len(source) >= 2 /\ promise_sets = 1 /\ read_types # {}

\* C4: with read_types empty no buffer is ever pushed: every entity is
\* ignored, nothing is built or committed, and the header is all a run
\* produces.
C4NothingSelected ==
    read_types = {} =>
        /\ pushed = <<>> /\ SelectSeq(consumed \o output_queue, is_buffer) = <<>>
        /\ m_buffer = EmptyBuffer /\ commits = <<>> /\ item = NoItem
        /\ NoBuilderLive
        /\ m_context \in {"root", "top", "ignored_node", "ignored_way",
                          "ignored_relation", "ignored_changeset"}
        /\ (pc = "done" => header_promise.state = "value")

\* A finished run with read_types empty whose source holds entities.
C4Witness ==
    read_types = {} /\ pc = "done" /\ Len(source) >= 2

\* C5: the context leaves root only for a root element of version 0.6; a
\* root element osm/osmChange with another version, or with none, ends the
\* run with format_version_error carrying that version (empty if there is
\* none), and no builder was created and no buffer pushed.
C5VersionGate ==
    /\ m_context # "root" => m_header.version = "0.6"
    /\ (stack # <<>> /\ stack[1] \in {"osm", "osmChange"} /\ m_header.version # "0.6")
         => /\ pc = "failed"
            /\ thrown = [kind |-> "format_version_error",
                         version |-> m_header.version]
    /\ (thrown.kind = "format_version_error" /\ Len(stack) = 1)
         => /\ m_context = "root" /\ NoBuilderLive /\ item = NoItem
            /\ m_buffer = EmptyBuffer /\ pushed = <<>> /\ commits = <<>>

\* The root element carried version="0.5".
C5Witness ==
    pc = "failed" /\ Len(stack) = 1 /\ thrown = [kind |-> "format_version_error", version |-> "0.5"]

\* C6: every error raised while a chunk is tokenized ends the run; the
\* header promise gets the exception if it was still unfulfilled (and keeps
\* its header otherwise), and the output queue gets the error marker after
\* all buffers pushed before, so the consumer sees those first.
C6ErrorInOrder ==
    /\ [](thrown # NoError <=> pc = "failed")
    /\ []((stack # <<>> /\ stack[1] \notin {"osm", "osmChange"}) => pc = "failed")
    /\ [](pc = "failed" =>
            /\ consumed \o output_queue = pushed \o <<ErrorEntry(thrown)>>
            /\ header_is_done /\ promise_sets = 1
            /\ header_promise.state = "exception" => header_promise.error = thrown)
    /\ [][(pc # "failed" /\ pc' = "failed") =>
            IF header_is_done THEN header_promise' = header_promise
            ELSE header_promise' = [state |-> "exception", header |-> EmptyHeader,
                                    error |-> thrown']]_vars

\* An error after a buffer had been pushed: the consumer has popped the
\* buffer and then the error marker.
C6Witness ==
    /\ pc = "failed" /\ pushed # <<>>
    /\ consumed = pushed \o <<ErrorEntry(thrown)>>

\* C7: in a run that ends without error every committed entity is in exactly
\* one pushed buffer; the last step of run() pushes the buffer if and only
\* if committed() > 0, and no pushed buffer has committed() == 0.
C7Delivered ==
    /\ [](\A i \in 1..Len(pushed) : pushed[i].committed > 0 /\ pushed[i].items # <<>>)
    /\ [](pc = "done" => ids_of(pushed) = commits)
    /\ [][(pc = "final" /\ pc' = "done") =>
            IF m_buffer.committed > 0
            THEN pushed' = Append(pushed, BufferEntry(m_buffer))
            ELSE pushed' = pushed]_vars

\* A finished run with a flushed buffer and a partly filled last one.
C7Witness ==
    /\ pc = "done" /\ Len(pushed) >= 2
    /\ Last(pushed).committed <= flush_threshold

\* C8: right after an entity is committed the buffer is moved to the output
\* queue and replaced by a fresh empty one if and only if committed() is
\* more than 90% of the capacity; so with the context top the buffer holds
\* at most 90% of its capacity.
C8FlushPolicy ==
    /\ [](m_context = "top" => 10 * m_buffer.committed <= 9 * buffer_size)
    /\ [][commits' # commits =>
            LET size == m_buffer.committed + Last(m_buffer'.items \o
                            (IF pushed' # pushed THEN Last(pushed').items ELSE <<>>)).size
            IN  IF 10 * size > 9 * buffer_size
                THEN /\ pushed' = Append(pushed, [what |-> "buffer",
                                                  items |-> Last(pushed').items,
                                                  committed |-> size,
                                                  error |-> NoError])
                     /\ Len(Last(pushed').items) = Len(m_buffer.items) + 1
                     /\ m_buffer' = EmptyBuffer
                ELSE /\ pushed' = pushed
                     /\ m_buffer'.committed = size]_vars

\* A buffer has just been flushed; and one was left at exactly 90%.
C8Witness ==
    /\ m_context = "top" /\ pushed # <<>> /\ m_buffer = EmptyBuffer
    /\ 10 * Last(pushed).committed > 9 * buffer_size

\* The bytes committed in a run, and the claim's estimate of its buffers.
RECURSIVE bytes_of(_)
bytes_of(entries) ==
    IF entries = <<>> THEN 0 ELSE Head(entries).committed + bytes_of(Tail(entries))
CeilDiv(a, b) == (a + b - 1) \div b
estimate(total) == CeilDiv(10 * total, 9 * buffer_size)
largest_item ==
    LET its == items_of(pushed)
    IN  IF its = <<>> THEN 0
        ELSE CHOOSE m \in {its[i].size : i \in 1..Len(its)} :
                 \A i \in 1..Len(its) : its[i].size <= m

\* C9 as stated: the number of buffers pushed in a run is within 1 of
\* ceil(totalBytes / (0.9 * capacity)), for every N.
C9WithinOne ==
    pc = "done" =>
        /\ Len(pushed) - estimate(bytes_of(pushed)) <= 1
        /\ estimate(bytes_of(pushed)) - Len(pushed) <= 1

\* C9 as amended: the number of buffers pushed is at most the estimate
\* and at least ceil(totalBytes / capacity), and it is within 1 of the
\* estimate as long as (buffers pushed) * (largest entity) <= 0.9 * capacity.
C9Amended ==
    pc = "done" =>
        /\ Len(pushed) <= estimate(bytes_of(pushed))
        /\ CeilDiv(bytes_of(pushed), buffer_size) <= Len(pushed)
        /\ 10 * Len(pushed) * largest_item <= 9 * buffer_size
             => estimate(bytes_of(pushed)) - Len(pushed) <= 1

\* A finished run of many entities, several buffers, within the amended
\* claim's condition.
C9Witness ==
    /\ pc = "done" /\ Len(pushed) >= 3 /\ Len(commits) >= 20
    /\ 10 * Len(pushed) * largest_item <= 9 * buffer_size

\* C10: whatever the interleaving of producer and consumer, the buffers are
\* popped in the order they were pushed, and the entities of the pushed
\* buffers are in the order in which they were committed.
C10Order ==
    /\ SelectSeq(consumed \o output_queue, is_buffer) = pushed
    /\ IsPrefix(ids_of(pushed), commits)

\* The consumer has popped two buffers while a third waits in the queue.
C10Witness ==
    Len(consumed) >= 2 /\ output_queue # <<>> /\ pc = "chunk"

\* The source positions of the children stored in the sublists of an entity,
\* in buffer order.
elem_id(type, e) ==
    CASE type = "relation_member_list" -> e.ref
      [] type = "changeset_discussion" -> e.id
      [] OTHER -> e
RECURSIVE elem_ids(_)
elem_ids(subs) ==
    IF subs = <<>> THEN <<>>
    ELSE [i \in 1..Len(Head(subs).elems) |->
             elem_id(Head(subs).type, Head(subs).elems[i])]
         \o elem_ids(Tail(subs))
Increasing(q) == \A i, j \in 1..Len(q) : i < j => q[i] < q[j]
sub_types(it) == [i \in 1..Len(it.subs) |-> it.subs[i].type]
sub_ids(it, type) == elem_ids(SelectSeq(it.subs, LAMBDA sub : sub.type = type))
\* Every entity committed so far and the one under construction.
all_items == items_of(pushed) \o (IF pc = "done" THEN <<>> ELSE m_buffer.items)
built_items == all_items \o (IF item = NoItem THEN <<>> ELSE <<item>>)

\* C11: within every entity the tags, node refs, members and comments are
\* stored in the order of their elements in the source, however the child
\* elements interleave.
C11ChildOrder ==
    \A n \in 1..Len(built_items) :
        /\ Increasing(elem_ids(built_items[n].subs))
        /\ \A type \in {"tag_list", "way_node_list", "relation_member_list",
                         "changeset_discussion"} :
               Increasing(sub_ids(built_items[n], type))

\* An emitted way with children nd, tag, nd.
C11Witness ==
    \E n \in 1..Len(items_of(pushed)) :
        /\ sub_types(items_of(pushed)[n])
              = <<"way_node_list", "tag_list", "way_node_list">>
        /\ Len(elem_ids(items_of(pushed)[n].subs)) = 3

\* An emitted changeset with a tag and two comments.
CommentsEmitted ==
    \E n \in 1..Len(items_of(pushed)) :
        /\ sub_types(items_of(pushed)[n]) = <<"tag_list", "changeset_discussion">>
        /\ Len(elem_ids(items_of(pushed)[n].subs)) = 3

\* The offset at which the item after `items` starts in its buffer.
RECURSIVE sum_sizes(_)
sum_sizes(items) ==
    IF items = <<>> THEN 0 ELSE Head(items).size + sum_sizes(Tail(items))
aligned(n) == n % align_bytes = 0
buffer_aligned(b) ==
    /\ aligned(b.committed)
    /\ sum_sizes(b.items) = b.committed
    /\ \A n \in 1..Len(b.items) : aligned(sum_sizes(SubSeq(b.items, 1, n - 1)))

\* C12: after every commit committed() of the active buffer is a multiple of
\* the alignment word, and every item of every buffer, pushed or active,
\* starts at a multiple of the alignment word, whatever the lengths of the
\* user names, tags and roles.
C12Aligned ==
    /\ buffer_aligned(m_buffer)
    /\ \A n \in 1..Len(pushed) : buffer_aligned(pushed[n])

\* A buffer of two entities whose tag and role strings are not multiples of
\* the alignment word has been pushed.
C12Witness ==
    /\ pc = "done" /\ src_user = 3 /\ pushed # <<>>
    /\ Len(pushed[1].items) >= 2
    /\ \E n \in 1..Len(pushed[1].items) :
          \E i \in 1..Len(pushed[1].items[n].subs) :
              pushed[1].items[n].subs[i].padding # 0

\* The fixed header and the user section of an entity of kind `type`.
head_size(type) ==
    LET raw == sizeof(type)
               + (IF type = "changeset" THEN 0 ELSE SizeofStringSize)
               + src_user + 1
    IN  raw + padding_for(raw, TRUE)
\* Where the walk over the sublists ends: each one is skipped by its size
\* prefix and the padding after it.
RECURSIVE skip_sublists(_, _)
skip_sublists(offset, subs) ==
    IF subs = <<>> THEN offset
    ELSE skip_sublists(offset + Head(subs).size + Head(subs).padding, Tail(subs))

\* C13: the size prefixes are consistent. For every item, committed or under
\* construction, the walk that starts after the header and the user section
\* and skips each sublist by its padded size ends at the end of the item; in
\* a committed item every sublist starts on an alignment boundary; and the
\* size of the item under construction is the number of bytes written for it.
C13SizePrefixes ==
    /\ \A n \in 1..Len(built_items) :
          skip_sublists(head_size(built_items[n].type), built_items[n].subs)
              = built_items[n].size
    /\ \A n \in 1..Len(all_items) :
          \A i \in 1..Len(all_items[n].subs) :
              /\ all_items[n].subs[i].size >= SizeofSublist
              /\ aligned(skip_sublists(head_size(all_items[n].type),
                                       SubSeq(all_items[n].subs, 1, i)))
    /\ m_buffer.written - m_buffer.committed = item.size

\* An emitted relation with a member list, a tag list and a second member
\* list.
C13Witness ==
    \E n \in 1..Len(items_of(pushed)) :
        /\ sub_types(items_of(pushed)[n])
              = <<"relation_member_list", "tag_list", "relation_member_list">>
        /\ items_of(pushed)[n].size > head_size("relation") + 3 * SizeofSublist

EntitiesNotSupported == Error("xml_error: XML entities are not supported")

\* C14: when the tokenizer reports an entity declaration the parser raises
\* xml_error "XML entities are not supported", the run ends with that error,
\* and from then on no entity is committed and no buffer is pushed.
C14EntityDefense ==
    /\ [](entity_declared => pc = "failed" /\ thrown = EntitiesNotSupported)
    /\ [][entity_declared' =>
            /\ commits' = commits /\ pushed' = pushed
            /\ m_buffer' = m_buffer /\ item' = item]_vars

\* The declaration has been reported and has ended the run.
C14Witness ==
    /\ entity_declared /\ pc = "failed" /\ thrown = EntitiesNotSupported
    /\ last

UnknownMemberType == Error("xml_error: Unknown type on relation member")
MissingMemberRef == Error("xml_error: Missing ref on relation member")
members_of(it) ==
    elem_ids(SelectSeq(it.subs, LAMBDA sub : sub.type = "relation_member_list"))
member_records(it) ==
    UNION {{it.subs[i].elems[n] : n \in 1..Len(it.subs[i].elems)} :
              i \in {j \in 1..Len(it.subs) : it.subs[j].type = "relation_member_list"}}

\* C15: a member whose type is not node, way or relation, or whose ref is
\* missing or zero, raises an error; no record is appended for it, so no
\* member list ever holds such a member, and the relation is not committed.
C15MemberChecked ==
    /\ \A n \in 1..Len(built_items) :
          \A m \in member_records(built_items[n]) :
              m.type \in {"n", "w", "r"} /\ m.ref # 0
    /\ thrown \in {UnknownMemberType, MissingMemberRef} =>
          /\ pc = "failed"
          /\ stack[Len(stack)] = "member"
          /\ item.type = "relation"
          /\ \A m \in member_records(item) : m.ref # nevents
          /\ \A n \in 1..Len(commits) : commits[n] # item.id

\* The second member of a relation has an unknown type: the first one is in
\* the list, the relation is not committed.
C15Witness ==
    /\ thrown = UnknownMemberType /\ pc = "failed"
    /\ Len(members_of(item)) = 1

\* The position of the first sublist of kind `type` in an item, 0 if none.
first_sub(it, type) ==
    IF \E i \in 1..Len(it.subs) : it.subs[i].type = type
    THEN CHOOSE i \in 1..Len(it.subs) :
             /\ it.subs[i].type = type
             /\ \A j \in 1..(i - 1) : it.subs[j].type # type
    ELSE 0
\* A way of scenario S2: it has node refs and tags, and all its nd elements
\* precede all its tag elements in the source.
nd_before_tag(it) ==
    /\ it.type = "way"
    /\ sub_ids(it, "way_node_list") # <<>> /\ sub_ids(it, "tag_list") # <<>>
    /\ \A i \in 1..Len(sub_ids(it, "way_node_list")) :
          \A j \in 1..Len(sub_ids(it, "tag_list")) :
              sub_ids(it, "way_node_list")[i] < sub_ids(it, "tag_list")[j]
emitted == items_of(pushed)

\* C16 as stated: in an emitted way whose nd elements precede its tag
\* elements the tag section precedes the nodeRef section.
C16TagsFirst ==
    \A n \in 1..Len(emitted) :
        nd_before_tag(emitted[n]) =>
            first_sub(emitted[n], "tag_list") < first_sub(emitted[n], "way_node_list")

\* C16 as amended: such a way is laid out as header, user section, one
\* nodeRef section with all the refs, then one tag section with all the
\* tags: the sections are in the order of the source.
C16SourceLayout ==
    \A n \in 1..Len(emitted) :
        nd_before_tag(emitted[n]) =>
            /\ sub_types(emitted[n]) = <<"way_node_list", "tag_list">>
            /\ emitted[n].size =
                    head_size("way") + emitted[n].subs[1].size + emitted[n].subs[1].padding
                    + emitted[n].subs[2].size + emitted[n].subs[2].padding
            /\ emitted[n].subs[1].size
                    = SizeofSublist + SizeofNodeRef * Len(emitted[n].subs[1].elems)

\* Scenario S2: an emitted way with two nd elements followed by a tag.
C16Witness ==
    \E n \in 1..Len(emitted) :
        /\ nd_before_tag(emitted[n])
        /\ Len(sub_ids(emitted[n], "way_node_list")) = 2
        /\ Len(sub_ids(emitted[n], "tag_list")) = 1

Terminated == pc \in {"done", "failed", "aborted"}

\* C17: once the input queue has delivered the end of the input, run()
\* terminates if the consumer keeps popping; the producer never pushes to a
\* full output queue, and nothing in the queue is dropped or overwritten:
\* the queue changes only by a push at its tail or a pop at its head.
C17Backpressure ==
    /\ last ~> Terminated
    /\ [](Len(output_queue) <= MaxQueue)
    /\ [][\/ output_queue' = output_queue
          \/ /\ output_queue # <<>>
             /\ output_queue' = Tail(output_queue)
             /\ consumed' = Append(consumed, Head(output_queue))
          \/ /\ Len(output_queue) < MaxQueue
             /\ Len(output_queue') = Len(output_queue) + 1
             /\ SubSeq(output_queue', 1, Len(output_queue)) = output_queue
             /\ consumed' = consumed]_vars

\* The producer is suspended: the output queue is full and the last step of
\* run() has a buffer to push.
C17Witness ==
    /\ Len(output_queue) = MaxQueue /\ pc = "final" /\ m_buffer.committed > 0
    /\ Len(pushed) > Len(output_queue)

\* The text of the comment added last to the discussion under construction.
last_comment_text(it, i) == it.subs[i].elems[Len(it.subs[i].elems)].text

\* A step that processes the </text> of a comment.
text_closed == m_context = "comment_text" /\ m_context' = "comment"

\* After </text> the comment-text accumulator is empty.
C18AccumulatorCleared == [][text_closed => m_comment_text' = 0]_vars

\* The text pushed at </text> is the character data received since the
\* <text> tag of the same comment.
C18OwnText ==
    [][text_closed /\ thrown' = NoError =>
          last_comment_text(item', m_changeset_discussion_builder') = text_chars]_vars

\* C18: after the closing </text> of a comment has been processed the
\* comment-text accumulator is empty, and so the text pushed for each comment
\* is exactly the character data received inside its own <text> element,
\* also when no character data lies between </text> and the next <text>.
C18TextPerComment == C18AccumulatorCleared /\ C18OwnText

\* The sublist builders that are live.
live_sublists ==
    {b \in {"tag_list", "way_node_list", "relation_member_list",
            "changeset_discussion"} :
        \/ b = "tag_list" /\ m_tl_builder # 0
        \/ b = "way_node_list" /\ m_wnl_builder # 0
        \/ b = "relation_member_list" /\ m_rml_builder # 0
        \/ b = "changeset_discussion" /\ m_changeset_discussion_builder # 0}

\* C19: at most one of the sublist builders (tag list, way node list,
\* relation member list, changeset discussion) is live at any time, and none
\* was ever created while another one was live; the live one builds the
\* sublist of its kind written last.
C19OneSublist ==
    /\ Cardinality(live_sublists) <= 1
    /\ "sublist builder created while another is live" \notin lifetime
    /\ \A b \in live_sublists :
          /\ item.subs # <<>>
          /\ Last(item.subs).type = b
          /\ {m_tl_builder, m_wnl_builder, m_rml_builder,
              m_changeset_discussion_builder} \subseteq {0, Len(item.subs)}

\* The entity under construction has switched the kind of sublist: a
\* sublist builder is live after those of two other sublists were released.
C19Witness ==
    /\ Cardinality(live_sublists) = 1
    /\ Len(item.subs) >= 3
    /\ \E i \in 1..Len(item.subs) - 1 : item.subs[i].type # Last(item.subs).type

between_entities ==
    m_context \in {"root", "top", "ignored_node", "ignored_way",
                   "ignored_relation", "ignored_changeset"}

entity_committed == commits' # commits

\* The element whose end tag the tokenizer reports next.
innermost == stack[Len(stack)]

\* C21: start_element is never processed in the context in_object (its
\* assert(false) never fails), and a node, way or relation is committed only
\* by the end tag of an element of its own name, never by the end tag of one
\* of its children.
C21GrandchildTolerated ==
    /\ [][("start_element: in_object" \in asserts') =>
             ("start_element: in_object" \in asserts)]_vars
    /\ [][entity_committed /\ item.type \in {"node", "way", "relation"} =>
             stack # <<>> /\ innermost = item.type]_vars

\* The asserts of end_element in the changeset subtree.
changeset_asserts ==
    {"end_element: changeset", "end_element: discussion", "end_element: comment",
     "end_element: text"}

\* C22: in the changeset subtree every end tag is handled in the context of
\* the element it closes (none of the four asserts fails), whatever children
\* changeset, discussion and comment have, and a changeset is committed only
\* by its own end tag.
C22ChangesetClosedByOwnTag ==
    /\ [][asserts' \cap changeset_asserts \subseteq asserts]_vars
    /\ [][entity_committed /\ item.type = "changeset" =>
             stack # <<>> /\ innermost = "changeset"]_vars

\* The entity builder of the given kind is live.
entity_builder(type) ==
    CASE type = "node" -> m_node_builder
      [] type = "way" -> m_way_builder
      [] type = "relation" -> m_relation_builder
      [] type = "changeset" -> m_changeset_builder
      [] OTHER -> FALSE

\* The open child of an entity has no nested elements so far.
no_grandchild == "start_element: in_object" \notin asserts

ignored_contexts ==
    {"ignored_node", "ignored_way", "ignored_relation", "ignored_changeset"}

\* The kind of entity an ignored context skips.
ignored_kind(c) ==
    CASE c = "ignored_node" -> "node"
      [] c = "ignored_way" -> "way"
      [] c = "ignored_relation" -> "relation"
      [] c = "ignored_changeset" -> "changeset"

\* The names of the open elements.
open_elements(s) == {s[i] : i \in 1..Len(s)}

\* C24: while an entity whose kind is not in read_types is skipped, no
\* builder is created and the buffer's written and committed counters do not
\* change; the context leaves the ignored state only for TOP, and only at
\* the end tag that closes the skipped entity itself (no element of its name
\* is open afterwards).
C24IgnoredUntilOwnTag ==
    /\ [][(m_context \in ignored_contexts) =>
             /\ NoBuilderLive'
             /\ m_buffer'.written = m_buffer.written
             /\ m_buffer'.committed = m_buffer.committed]_vars
    /\ [][(m_context \in ignored_contexts) /\ m_context' # m_context =>
             /\ m_context' = "top"
             /\ Len(stack') < Len(stack)
             /\ ignored_kind(m_context) \notin open_elements(stack')]_vars

\* C25: the context returns to ROOT only at the end tag of the document
\* element (no element is open afterwards), and end_element is never
\* processed in the context ROOT (its assert(false) never fails), also when
\* an element named osm or osmChange is a child of the document element.
C25RootAtDocumentEnd ==
    /\ [][m_context # "root" /\ m_context' = "root" => stack' = <<>>]_vars
    /\ [][("end_element: root" \in asserts') => ("end_element: root" \in asserts)]_vars

\* A delete element that is a child of the document element is open.
in_delete_element == Len(stack) >= 2 /\ stack[2] = "delete"

\* C26: the in-delete flag is true while a delete child of the document
\* element is open and false while no delete element is open (initially and
\* after </delete>), and an entity is marked as deleted if it was started
\* inside a delete child of the document element and only if it was started
\* inside a delete element (as long as run() has not failed).
C26DeleteSection ==
    thrown = NoError =>
    /\ in_delete_element => m_in_delete_section
    /\ m_in_delete_section => "delete" \in open_elements(stack)
    /\ item # NoItem =>
          /\ in_delete_element => item.in_delete
          /\ item.in_delete => "delete" \in open_elements(stack)

\* C27: once the start tag of the first entity element that lies in no other
\* entity element has been processed, whether its kind is in read_types or
\* not, the header promise holds the header; and it holds it before the step
\* that pushes a buffer to the output queue.
C27HeaderBeforeData ==
    /\ [](source # <<>> => header_is_done /\ header_promise.state = "value")
    /\ [][Len(pushed') > Len(pushed) =>
             header_is_done /\ header_promise.state = "value"
             /\ header_promise' = header_promise]_vars

\* The first entity of the source was of a kind the reader did not ask for,
\* and a buffer has been pushed since.
C27Witness ==
    /\ source # <<>> /\ source[1].type \notin read_types
    /\ pushed # <<>> /\ header_promise.state = "value"

\* The header promise is fulfilled with a header by this step.
header_delivered ==
    header_promise.state = "unset" /\ header_promise'.state = "value"

\* C28 as stated: when run() is done, the header delivered through the
\* promise holds a box for every bounds child of the document element,
\* wherever it stands relative to the entities.
C28EveryBounds ==
    pc = "done" /\ header_promise.state = "value" =>
        header_promise.header.boxes >= src_bounds

\* C28 as the code has it: the header delivered holds a box for every bounds
\* child of the document element whose start tag came before the promise
\* was fulfilled (before the first entity outside other entities), and is
\* not changed afterwards; boxes of later bounds elements go to m_header
\* only.
C28BoundsBeforeEntities ==
    /\ [][header_delivered =>
             /\ header_promise'.header = m_header
             /\ header_promise'.header.boxes >= src_bounds']_vars
    /\ [][header_promise.state = "value" => header_promise' = header_promise]_vars
    /\ [](thrown = NoError => m_header.boxes >= src_bounds)

\* A bounds element before the first entity and one after it: the header
\* delivered holds one box, m_header two.
C28Witness ==
    /\ pc = "done" /\ source # <<>> /\ src_bounds = 2
    /\ header_promise.state = "value" /\ header_promise.header.boxes = 1
    /\ m_header.boxes = 2

\* A node of the source (with its user name) built in a fresh buffer.
node_in_fresh_buffer ==
    init_and_add_user(
        OSMObjectBuilder([Parser EXCEPT !.m_buffer = EmptyBuffer, !.item = NoItem,
                                        !.thrown = NoError],
                         "node"),
        << <<"id", 1>>, <<"user", src_user>> >>)

\* C29: BufferFull is raised only for an entity that does not fit in a fresh
\* buffer, whatever committed data the active buffer holds when the entity
\* starts: if a node of the stream is rejected, building the same node in an
\* empty buffer fails as well.
C29OnlyOversized ==
    thrown = Error("buffer_full") =>
        node_in_fresh_buffer.thrown = Error("buffer_full")

pushed_once ==
    LET ids == ids_of(pushed)
    IN  \A i \in 1..Len(ids) - 1 : ids[i] < ids[i + 1]

\* C31: a buffer that has been pushed is never written again: what was
\* pushed stays as it was pushed, whatever the consumer does; after
\* flush_buffer has pushed the active buffer, the active buffer is a fresh
\* empty one, so no entity gets into two pushed buffers; and once run() is
\* done nothing is built, committed or pushed any more.
C31PushedIsFinal ==
    /\ [][IsPrefix(pushed, pushed')]_vars
    /\ [][pc = "chunk" /\ Len(pushed') > Len(pushed) =>
             m_buffer' = EmptyBuffer /\ item' = NoItem]_vars
    /\ [](pushed_once)
    /\ [][pc = "done" =>
             /\ m_buffer' = m_buffer /\ item' = item
             /\ commits' = commits /\ pushed' = pushed]_vars

\* The parser is filling a fresh buffer while the buffer it pushed is still
\* waiting in the output queue.
C31Witness ==
    /\ pc = "chunk" /\ output_queue # <<>> /\ Last(output_queue) = Last(pushed)
    /\ m_buffer.committed > 0
    /\ m_buffer.items[1].id \notin {ids_of(pushed)[i] : i \in 1..Len(ids_of(pushed))}

\* C32: with read_types empty no chunk is popped from the input queue once
\* the header is done: the chunk in which the header became done is parsed
\* to its end and the loop is then left, whether the input is at its end or
\* not.
C32StopsAfterHeader ==
    /\ [][pc = "loop" /\ pc' = "chunk" =>
             ~(read_types = {} /\ header_is_done)]_vars
    /\ [][pc = "chunk" /\ pc' \in {"loop", "final"} /\ read_types = {}
             /\ header_is_done => pc' = "final"]_vars
    /\ [](read_types = {} /\ header_is_done => pc # "loop")

\* run() is done although the end of the input was never popped.
C32Witness ==
    /\ read_types = {} /\ pc = "done" /\ ~last
    /\ header_promise.state = "value" /\ source # <<>>

\* C33: every emitted entity holds at most one sublist of each kind: a way
\* at most one node-ref list and one tag list, a relation at most one
\* member list and one tag list, a changeset at most one discussion and one
\* tag list, however the child elements interleave.
C33OneSublistPerKind ==
    \A n \in 1..Len(emitted) :
        \A i, j \in 1..Len(emitted[n].subs) :
            emitted[n].subs[i].type = emitted[n].subs[j].type => i = j

====
